---- MODULE Spec2Model ----
(***************************************************************************)
(* A model of PAMI/frequentPattern/pyspark/parallelFPGrowth.py: the        *)
(* FP-tree (_Node, _Tree), the projection of transactions onto partitions  *)
(* (genCondTransaction), the recursive mining (genAllFrequentPatterns,     *)
(* genFreqPatterns) and the driver startMine.                              *)
(*                                                                         *)
(* Python objects live in a heap: `nodes` holds the _Node objects and      *)
(* `trees` the _Tree objects; a reference is an index into them.  A Python *)
(* dict is the sequence of its <<key, value>> pairs in insertion order.    *)
(***************************************************************************)
EXTENDS Integers, Sequences, FiniteSets, TLC

(***************************************************************************)
(* Bounds of the model.                                                    *)
(***************************************************************************)
NumItems == 3
MaxTrans == 3
MaxSup == 3
MaxPartitions == 3
MaxCount == 2
TreeMaxTrans == 3
RawMaxLen == 4
RawMaxTrans == 2
RawMaxSup == 2
CfgMaxTrans == 2
CfgMaxSup == 2

LabelNames == <<"a", "b", "c", "d", "e", "f">>
Labels == {LabelNames[i] : i \in 1..NumItems}
Ranks == 0..(NumItems - 1)

(***************************************************************************)
(* Python dicts and lists.                                                 *)
(***************************************************************************)
Has(d, k) == \E i \in DOMAIN d : d[i][1] = k

Get(d, k) == d[CHOOSE i \in DOMAIN d : d[i][1] = k][2]

Put(d, k, v) ==
    IF Has(d, k)
    THEN [i \in DOMAIN d |-> IF d[i][1] = k THEN <<k, v>> ELSE d[i]]
    ELSE Append(d, <<k, v>>)

RECURSIVE Update(_, _)
Update(d, e) ==
    IF e = <<>> THEN d
    ELSE Update(Put(d, Head(e)[1], Head(e)[2]), Tail(e))

DictOf(pairs) == Update(<<>>, pairs)

Index(s, x) == CHOOSE i \in DOMAIN s : s[i] = x /\ \A j \in 1..(i - 1) : s[j] # x

RECURSIVE InsertBy(_, _, _)
InsertBy(s, x, kx) ==
    IF s = <<>> THEN <<x>>
    ELSE IF kx < Head(s)[1] THEN <<x>> \o s
    ELSE <<Head(s)>> \o InsertBy(Tail(s), x, kx)

RECURSIVE SortedPairs(_)
SortedPairs(s) ==
    IF s = <<>> THEN <<>>
    ELSE InsertBy(SortedPairs(SubSeq(s, 1, Len(s) - 1)), s[Len(s)], s[Len(s)][1])

Sorted(s) ==
    LET p == SortedPairs([i \in DOMAIN s |-> <<s[i], s[i]>>])
    IN  [i \in DOMAIN p |-> p[i][2]]

Reversed(s) == [i \in DOMAIN s |-> s[Len(s) + 1 - i]]

(***************************************************************************)
(* _Node and _Tree.                                                        *)
(***************************************************************************)
NoItem == -1

Node(item, prefix) ==
    [item |-> item, count |-> 0, children |-> <<>>, prefix |-> prefix]

Tree(h) ==
    [h |-> [nodes |-> Append(h.nodes, Node(NoItem, <<>>)),
            trees |-> Append(h.trees, [root |-> Len(h.nodes) + 1,
                                       nodeLink |-> <<>>,
                                       itemCount |-> <<>>])],
     tree |-> Len(h.trees) + 1]

\* a slip: a rank keeps the first of its nodes only
addNodeToNodeLinkFirst(h, self, node) ==
    LET item == h.nodes[node].item
        link == h.trees[self].nodeLink
    IN  [h EXCEPT !.trees[self].nodeLink =
            IF ~Has(link, item) THEN Put(link, item, <<node>>) ELSE link]

addNodeToNodeLink(h, self, node) ==
    LET item == h.nodes[node].item
        link == h.trees[self].nodeLink
    IN  [h EXCEPT !.trees[self].nodeLink =
            IF ~Has(link, item) THEN Put(link, item, <<node>>)
            ELSE Put(link, item, Append(Get(link, item), node))]

\* a slip: itemCount counts the calls, not their counts
AddCountOne(h, self, item, count) ==
    LET ic == h.trees[self].itemCount
    IN  [h EXCEPT !.trees[self].itemCount =
            Put(ic, item, (IF Has(ic, item) THEN Get(ic, item) ELSE 0) + 1)]

\* self.itemCount[item] += count
AddCount(h, self, item, count) ==
    LET ic == h.trees[self].itemCount
    IN  [h EXCEPT !.trees[self].itemCount =
            Put(ic, item, (IF Has(ic, item) THEN Get(ic, item) ELSE 0) + count)]

\* a slip: the prefix of a node holds the node's own item
NodePrefixIncl(transaction, item) == SubSeq(transaction, 1, Index(transaction, item))

\* transaction[0:transaction.index(item)]
NodePrefix(transaction, item) == SubSeq(transaction, 1, Index(transaction, item) - 1)

RECURSIVE AddLoop(_, _, _, _, _, _)
AddLoop(h, self, transaction, count, k, current) ==
    IF k > Len(transaction) THEN h
    ELSE
      LET item == transaction[k]
          kids == h.nodes[current].children
      IN  IF ~Has(kids, item)
          THEN LET n  == Len(h.nodes) + 1
                   nd == [Node(item, NodePrefix(transaction, item))
                            EXCEPT !.count = @ + count]
                   h1 == [h EXCEPT !.nodes =
                            Append([@ EXCEPT ![current].children = Put(kids, item, n)], nd)]
                   h2 == addNodeToNodeLink(h1, self, n)
               IN  AddLoop(AddCount(h2, self, item, count), self, transaction, count, k + 1, n)
          ELSE LET n  == Get(kids, item)
                   h1 == [h EXCEPT !.nodes[n].count = @ + count]
               IN  AddLoop(AddCount(h1, self, item, count), self, transaction, count, k + 1, n)

addTransaction(h, self, transaction, count) ==
    AddLoop(h, self, transaction, count, 1, h.trees[self].root)

RECURSIVE CondLoop(_, _, _, _, _)
CondLoop(h, self, item, tree, i) ==
    LET link == Get(h.trees[self].nodeLink, item)
    IN  IF i > Len(link) THEN h
        ELSE CondLoop(addTransaction(h, tree, h.nodes[link[i]].prefix, h.nodes[link[i]].count),
                      self, item, tree, i + 1)

\* a slip: the conditional tree is the tree itself
SameTree(h, self) == [h |-> h, tree |-> self]

\* tree = _Tree()
NewTree(h, self) == Tree(h)

generateConditionalTree(h, self, item) ==
    LET t == NewTree(h, self)
    IN  [h |-> CondLoop(t.h, self, item, t.tree, 1), tree |-> t.tree]

RECURSIVE buildTree(_, _, _)
buildTree(h, tree, data) ==
    IF data = <<>> THEN h
    ELSE buildTree(addTransaction(h, tree, Head(data), 1), tree, Tail(data))

(***************************************************************************)
(* The state of a run of startMine.                                        *)
(***************************************************************************)
VARIABLES
    pc,               \* the position of startMine
    rdd,              \* the transactions read from iFile, one list of labels each
    minSup,           \* self._minSup
    numPartitions,    \* self._numPartitions
    lno,              \* self._lno
    FPList,           \* self._FPList
    finalPatterns,    \* self._finalPatterns
    rank,             \* the dict rank of startMine
    projected,        \* genCondTransaction's output, per transaction
    workByPartition,  \* the projected transactions grouped by partition id
    key,              \* the position in workByPartition of the tree being built and mined
    todo,             \* the transactions of workByPartition[key] not yet added to the tree
    nodes,            \* the _Node objects of the running task
    trees,            \* the _Tree objects of the running task
    itemList,         \* what is left of genAllFrequentPatterns' itemList
    freqPatterns,     \* genAllFrequentPatterns' freqPatterns
    stack,            \* the active calls of genFreqPatterns, the innermost last
    result,           \* the patterns the finished tasks returned
    jobs,             \* the distributed jobs run so far
    error,            \* the exception that ended the run, if any
    data,             \* tree building alone: the calls of addTransaction to make
    inserted          \* tree building alone: per tree, the calls made so far

vars == <<pc, rdd, minSup, numPartitions, lno, FPList, finalPatterns, rank, projected,
          workByPartition, key, todo, nodes, trees, itemList, freqPatterns, stack,
          result, jobs, error, data, inserted>>

treeVars == <<data, inserted>>

heap == [nodes |-> nodes, trees |-> trees]

\* the tree of the running task: the first object of `trees`
TaskTree == 1

(***************************************************************************)
(* The minimum support: an int, a float (a fraction num/den), a string (a   *)
(* list of characters) or something else (None).                           *)
(***************************************************************************)
IntSup(n) == [type |-> "int", num |-> n, den |-> 1, text |-> <<>>]
FloatSup(n, d) == [type |-> "float", num |-> n, den |-> d, text |-> <<>>]
StrSup(s) == [type |-> "str", num |-> 0, den |-> 1, text |-> s]
NoneSup == [type |-> "NoneType", num |-> 0, den |-> 1, text |-> <<>>]

Digits == <<"0", "1", "2", "3", "4", "5", "6", "7", "8", "9">>
IsDigit(c) == \E i \in DOMAIN Digits : Digits[i] = c
DigitVal(c) == (CHOOSE i \in DOMAIN Digits : Digits[i] = c) - 1

RECURSIVE Pow10(_)
Pow10(k) == IF k = 0 THEN 1 ELSE 10 * Pow10(k - 1)

RECURSIVE DecVal(_)
DecVal(s) == IF s = <<>> THEN 0 ELSE 10 * DecVal(SubSeq(s, 1, Len(s) - 1)) + DigitVal(s[Len(s)])

\* int(value) of a string: decimal digits only, anything else raises ValueError
IntOf(s) ==
    IF s # <<>> /\ \A i \in DOMAIN s : IsDigit(s[i])
    THEN [ok |-> TRUE, value |-> IntSup(DecVal(s))]
    ELSE [ok |-> FALSE, value |-> "ValueError"]

\* float(value) of a string that holds a '.': digits '.' digits, anything else
\* raises ValueError
FloatOf(s) ==
    LET dot  == Index(s, ".")
        int  == SubSeq(s, 1, dot - 1)
        frac == SubSeq(s, dot + 1, Len(s))
    IN  IF Len(s) > 1 /\ \A i \in DOMAIN s : i # dot => IsDigit(s[i])
        THEN [ok |-> TRUE,
              value |-> FloatSup(DecVal(int) * Pow10(Len(frac)) + DecVal(frac), Pow10(Len(frac)))]
        ELSE [ok |-> FALSE, value |-> "ValueError"]

convert(value, n) ==
    IF value.type = "int" THEN [ok |-> TRUE, value |-> value]
    ELSE IF value.type = "float"
    THEN [ok |-> TRUE, value |-> FloatSup(n * value.num, value.den)]
    ELSE IF value.type = "str"
    THEN IF \E i \in DOMAIN value.text : value.text[i] = "."
         THEN LET f == FloatOf(value.text)
              IN  IF f.ok THEN [ok |-> TRUE, value |-> FloatSup(n * f.value.num, f.value.den)]
                  ELSE f
         ELSE IntOf(value.text)
    ELSE [ok |-> TRUE, value |-> value]

Numeric(value) == value.type \in {"int", "float"}

\* a slip: > for >=
AtLeastStrict(x, value) == x * value.den > value.num

\* x >= self._minSup, for a converted numeric minSup
AtLeast(x, value) == x * value.den >= value.num

(***************************************************************************)
(* getPartitionId and genCondTransaction.                                  *)
(***************************************************************************)
getPartitionId(value, n) == value % n

RECURSIVE Select(_, _)
Select(transaction, rk) ==
    IF transaction = <<>> THEN <<>>
    ELSE IF Has(rk, Head(transaction))
         THEN <<Get(rk, Head(transaction))>> \o Select(Tail(transaction), rk)
         ELSE Select(Tail(transaction), rk)

\* a slip: the prefix stops before the rank
PrefixShort(newTrans, i) == SubSeq(newTrans, 1, Index(newTrans, i) - 1)

\* newTrans[:newTrans.index(i) + 1]
Prefix(newTrans, i) == SubSeq(newTrans, 1, Index(newTrans, i))

RECURSIVE CondTransLoop(_, _, _, _)
CondTransLoop(condTrans, newTrans, rev, n) ==
    IF rev = <<>> THEN condTrans
    ELSE LET i == Head(rev)
             partition == getPartitionId(i, n)
         IN  CondTransLoop(IF ~Has(condTrans, partition)
                           THEN Put(condTrans, partition, Prefix(newTrans, i))
                           ELSE condTrans,
                           newTrans, Tail(rev), n)

NewTrans(transaction, rk) == Sorted(Select(transaction, rk))

genCondTransaction(transaction, rk, n) ==
    LET newTrans == NewTrans(transaction, rk)
    IN  CondTransLoop(<<>>, newTrans, Reversed(newTrans), n)

(***************************************************************************)
(* genFreqPatterns, one call at a time.  A frame of `stack` is one active  *)
(* call: its arguments, its condTree, its freqItems, the position i of its *)
(* loop over freqItems and its freqPatterns.                               *)
(***************************************************************************)
RECURSIVE SumCounts(_, _)
SumCounts(ns, link) ==
    IF link = <<>> THEN 0 ELSE ns[Head(link)].count + SumCounts(ns, Tail(link))

RECURSIVE Filter(_, _)
Filter(d, ms) ==
    IF d = <<>> THEN <<>>
    ELSE IF AtLeast(Head(d)[2], ms) THEN <<Head(d)>> \o Filter(Tail(d), ms)
    ELSE Filter(Tail(d), ms)

FreqItemsOf(h, condTree, ms) ==
    LET link == h.trees[condTree].nodeLink
    IN  Filter([k \in DOMAIN link |-> <<link[k][1], SumCounts(h.nodes, link[k][2])>>], ms)

\* the call of genFreqPatterns up to its loop
Enter(h, item, prefix, tree, ms) ==
    LET c == generateConditionalTree(h, tree, item)
    IN  [h |-> c.h,
         frame |-> [item |-> item, prefix |-> prefix, tree |-> tree, condTree |-> c.tree,
                    freqItems |-> FreqItemsOf(c.h, c.tree, ms), i |-> 1,
                    freqPatterns |-> <<>>]]

\* genAllFrequentPatterns' itemList
ItemListOf(tree) ==
    LET ic == tree.itemCount
        p  == SortedPairs([k \in DOMAIN ic |-> <<ic[k][2], ic[k][1]>>])
    IN  [k \in DOMAIN p |-> p[k][2]]

\* a task: the heap, the tree of tree_tuple, its partition id, and where the
\* mining is
Finished(m) == m.itemList = <<>> /\ m.stack = <<>>

\* a slip: every rank of the tree is mined, whoever owns it
MineItemStepAny(m, n, ms) ==
    LET item == Head(m.itemList)
        e    == Enter(m.h, item, <<item>>, m.tree, ms)
    IN  [m EXCEPT !.h = e.h, !.itemList = Tail(@), !.stack = <<e.frame>>]

\* one iteration of genAllFrequentPatterns' loop, up to the call's loop
MineItemStep(m, n, ms) ==
    LET item == Head(m.itemList)
    IN  IF getPartitionId(item, n) = m.partition
        THEN LET e == Enter(m.h, item, <<item>>, m.tree, ms)
             IN  [m EXCEPT !.h = e.h, !.itemList = Tail(@), !.stack = <<e.frame>>]
        ELSE [m EXCEPT !.itemList = Tail(@)]

\* one iteration of genFreqPatterns' loop, up to the recursive call's loop
CallStep(m, ms) ==
    LET d       == Len(m.stack)
        top     == m.stack[d]
        i       == top.freqItems[top.i][1]
        pattern == Append(top.prefix, i)
        e       == Enter(m.h, i, pattern, top.condTree, ms)
    IN  [m EXCEPT !.h = e.h,
                  !.stack = Append([@ EXCEPT ![d].freqPatterns = Put(@, pattern, top.freqItems[top.i][2]),
                                             ![d].i = @ + 1],
                                   e.frame)]

\* a call of genFreqPatterns returns and its caller updates its freqPatterns
ReturnStep(m) ==
    LET d   == Len(m.stack)
        top == m.stack[d]
    IN  IF d = 1
        THEN [m EXCEPT !.stack = <<>>, !.freqPatterns = Update(@, top.freqPatterns)]
        ELSE [m EXCEPT !.stack = [SubSeq(@, 1, d - 1) EXCEPT
                                     ![d - 1].freqPatterns = Update(@, top.freqPatterns)]]

CanCall(m) == m.stack # <<>> /\ m.stack[Len(m.stack)].i <= Len(m.stack[Len(m.stack)].freqItems)
CanReturn(m) == m.stack # <<>> /\ m.stack[Len(m.stack)].i > Len(m.stack[Len(m.stack)].freqItems)
CanMineItem(m) == m.stack = <<>> /\ m.itemList # <<>>

MineStep(m, n, ms) ==
    IF CanCall(m) THEN CallStep(m, ms)
    ELSE IF CanReturn(m) THEN ReturnStep(m)
    ELSE MineItemStep(m, n, ms)

RECURSIVE RunMine(_, _, _)
RunMine(m, n, ms) == IF Finished(m) THEN m ELSE RunMine(MineStep(m, n, ms), n, ms)

\* genAllFrequentPatterns(tree_tuple), run to its end
genAllFrequentPatterns(h, partition, tree, n, ms) ==
    RunMine([h |-> h, tree |-> tree, partition |-> partition,
             itemList |-> ItemListOf(h.trees[tree]), freqPatterns |-> <<>>,
             stack |-> <<>>], n, ms).freqPatterns

(***************************************************************************)
(* The inputs: the transactions of iFile, minSup and numWorkers.           *)
(***************************************************************************)
RECURSIVE Pow2(_)
Pow2(k) == IF k = 0 THEN 1 ELSE 2 * Pow2(k - 1)

RECURSIVE TransFrom(_, _)
TransFrom(c, i) ==
    IF i > NumItems THEN <<>>
    ELSE (IF (c \div Pow2(i - 1)) % 2 = 1 THEN <<LabelNames[i]>> ELSE <<>>) \o TransFrom(c, i + 1)

\* the c-th transaction of distinct labels
TransOf(c) == TransFrom(c, 1)

NonDecreasing(k, m) == {s \in [1..k -> 1..m] : \A i \in 1..(k - 1) : s[i] <= s[i + 1]}

Databases ==
    UNION {{[i \in 1..k |-> TransOf(s[i])] : s \in NonDecreasing(k, Pow2(NumItems) - 1)}
           : k \in 0..MaxTrans}

Start(db, ms, n) ==
    /\ pc = "start"
    /\ rdd = db
    /\ minSup = ms
    /\ numPartitions = n
    /\ lno = 0
    /\ FPList = <<>>
    /\ finalPatterns = <<>>
    /\ rank = <<>>
    /\ projected = <<>>
    /\ workByPartition = <<>>
    /\ key = 0
    /\ todo = {}
    /\ nodes = <<>>
    /\ trees = <<>>
    /\ itemList = <<>>
    /\ freqPatterns = <<>>
    /\ stack = <<>>
    /\ result = <<>>
    /\ jobs = <<>>
    /\ error = ""
    /\ data = <<>>
    /\ inserted = <<>>

Init ==
    \E db \in Databases, s \in 0..MaxSup, n \in 1..MaxPartitions : Start(db, IntSup(s), n)

\* transactions in which a label may occur more than once
RawTransactions ==
    UNION {{[i \in 1..k |-> LabelNames[s[i]]] : s \in NonDecreasing(k, NumItems)}
           : k \in 1..RawMaxLen}

RawDatabases ==
    UNION {{db \in [1..k -> RawTransactions] : \A i \in 1..(k - 1) : Len(db[i]) <= Len(db[i + 1])}
           : k \in 0..RawMaxTrans}

InitRaw ==
    \E db \in RawDatabases, s \in 1..RawMaxSup, n \in 1..MaxPartitions : Start(db, IntSup(s), n)

\* the values minSup and numWorkers may be given
Sups ==
    {IntSup(s) : s \in 1..CfgMaxSup} \cup
    {FloatSup(1, 2), StrSup(<<"2">>), StrSup(<<"0", ".", "5">>), StrSup(<<"a", "b">>),
     StrSup(<<"a", ".", "b">>), NoneSup}

CfgDatabases ==
    UNION {{[i \in 1..k |-> TransOf(s[i])] : s \in NonDecreasing(k, Pow2(NumItems) - 1)}
           : k \in 0..CfgMaxTrans}

InitCfg ==
    \E db \in CfgDatabases, ms \in Sups, n \in 0..MaxPartitions : Start(db, ms, n)

(***************************************************************************)
(* startMine.                                                              *)
(***************************************************************************)
Fail(e) ==
    /\ pc' = "failed"
    /\ error' = e

\* self._lno = rdd.count()
Count ==
    /\ pc = "start"
    /\ lno' = Len(rdd)
    /\ jobs' = Append(jobs, "count")
    /\ pc' = "convert"
    /\ UNCHANGED <<rdd, minSup, numPartitions, FPList, finalPatterns, rank, projected,
                   workByPartition, key, todo, nodes, trees, itemList, freqPatterns, stack,
                   result, error>>
    /\ UNCHANGED treeVars

\* self._minSup = self._convert(self._minSup)
Convert ==
    /\ pc = "convert"
    /\ LET c == convert(minSup, lno)
       IN  IF c.ok THEN minSup' = c.value /\ pc' = "freqItems" /\ error' = error
           ELSE Fail(c.value) /\ minSup' = minSup
    /\ UNCHANGED <<rdd, numPartitions, lno, FPList, finalPatterns, rank, projected,
                   workByPartition, key, todo, nodes, trees, itemList, freqPatterns, stack,
                   result, jobs>>
    /\ UNCHANGED treeVars

RECURSIVE Occurrences(_, _)
Occurrences(transaction, item) ==
    IF transaction = <<>> THEN 0
    ELSE (IF Head(transaction) = item THEN 1 ELSE 0) + Occurrences(Tail(transaction), item)

RECURSIVE ItemCount(_, _)
ItemCount(db, item) ==
    IF db = <<>> THEN 0 ELSE Occurrences(Head(db), item) + ItemCount(Tail(db), item)

ItemsOf(db) == UNION {{db[t][i] : i \in DOMAIN db[t]} : t \in DOMAIN db}

StrKey(s) == [type |-> "str", str |-> s, tuple |-> <<>>]
TupleKey(t) == [type |-> "tuple", str |-> "", tuple |-> t]

\* the orders sortBy(count, ascending=False) may leave the items of F in
Descending(F, db) ==
    {s \in [1..Cardinality(F) -> F] :
        /\ \A i, j \in DOMAIN s : i # j => s[i] # s[j]
        /\ \A i \in 1..(Len(s) - 1) : ItemCount(db, s[i]) >= ItemCount(db, s[i + 1])}

\* the items that reach minSup
Frequent(db, ms) == {x \in ItemsOf(db) : AtLeast(ItemCount(db, x), ms)}

\* dict(freqItems)
SingletonsOf(db, fl) == DictOf([i \in DOMAIN fl |-> <<StrKey(fl[i]), ItemCount(db, fl[i])>>])

\* rank = dict([(item, index) for (index, item) in enumerate(self._FPList)])
RankOf(fl) == DictOf([i \in DOMAIN fl |-> <<fl[i], i - 1>>])

\* freqItems, self._finalPatterns, self._FPList and rank
FreqItems ==
    /\ pc = "freqItems"
    /\ jobs' = Append(jobs, "freqItems")
    /\ IF ItemsOf(rdd) # {} /\ ~Numeric(minSup)
       THEN /\ Fail("TypeError")
            /\ UNCHANGED <<FPList, finalPatterns, rank>>
       ELSE /\ \E s \in Descending(Frequent(rdd, minSup), rdd) :
                 /\ FPList' = s
                 /\ finalPatterns' = SingletonsOf(rdd, s)
                 /\ rank' = RankOf(s)
            /\ pc' = "project"
            /\ error' = error
    /\ UNCHANGED <<rdd, minSup, numPartitions, lno, projected, workByPartition, key, todo,
                   nodes, trees, itemList, freqPatterns, stack, result>>
    /\ UNCHANGED treeVars

RECURSIVE Flatten(_)
Flatten(ss) == IF ss = <<>> THEN <<>> ELSE Head(ss) \o Flatten(Tail(ss))

RECURSIVE GroupByKey(_, _)
GroupByKey(g, pairs) ==
    IF pairs = <<>> THEN g
    ELSE LET k == Head(pairs)[1]
         IN  GroupByKey(Put(g, k, Append(IF Has(g, k) THEN Get(g, k) ELSE <<>>, Head(pairs)[2])),
                        Tail(pairs))

\* workByPartition = rdd.flatMap(genCondTransaction).groupByKey()
Project ==
    /\ pc = "project"
    /\ jobs' = Append(jobs, "mine")
    /\ IF numPartitions = 0 /\ \E t \in DOMAIN rdd : NewTrans(rdd[t], rank) # <<>>
       THEN /\ Fail("ZeroDivisionError")
            /\ UNCHANGED <<projected, workByPartition, key>>
       ELSE /\ projected' = [t \in DOMAIN rdd |-> genCondTransaction(rdd[t], rank, numPartitions)]
            /\ workByPartition' = GroupByKey(<<>>, Flatten(projected'))
            /\ key' = 1
            /\ pc' = "task"
            /\ error' = error
    /\ UNCHANGED <<rdd, minSup, numPartitions, lno, FPList, finalPatterns, rank, todo,
                   nodes, trees, itemList, freqPatterns, stack, result>>
    /\ UNCHANGED treeVars

\* foldByKey's zero value: the tree of the next partition, empty
StartTask ==
    /\ pc = "task"
    /\ key <= Len(workByPartition)
    /\ LET t == Tree([nodes |-> <<>>, trees |-> <<>>])
       IN  nodes' = t.h.nodes /\ trees' = t.h.trees
    /\ todo' = DOMAIN workByPartition[key][2]
    /\ pc' = "build"
    /\ UNCHANGED <<rdd, minSup, numPartitions, lno, FPList, finalPatterns, rank, projected,
                   workByPartition, key, itemList, freqPatterns, stack, result, jobs, error>>
    /\ UNCHANGED treeVars

\* one iteration of buildTree's loop; the grouped transactions come in any order
AddTrans ==
    /\ pc = "build"
    /\ \E i \in todo :
          LET h == addTransaction(heap, TaskTree, workByPartition[key][2][i], 1)
          IN  /\ nodes' = h.nodes
              /\ trees' = h.trees
              /\ todo' = todo \ {i}
    /\ UNCHANGED <<pc, rdd, minSup, numPartitions, lno, FPList, finalPatterns, rank, projected,
                   workByPartition, key, itemList, freqPatterns, stack, result, jobs, error>>
    /\ UNCHANGED treeVars

\* genAllFrequentPatterns up to its loop
StartMining ==
    /\ pc = "build"
    /\ todo = {}
    /\ itemList' = ItemListOf(trees[TaskTree])
    /\ freqPatterns' = <<>>
    /\ pc' = "mine"
    /\ UNCHANGED <<rdd, minSup, numPartitions, lno, FPList, finalPatterns, rank, projected,
                   workByPartition, key, todo, nodes, trees, stack, result, jobs, error>>
    /\ UNCHANGED treeVars

Task ==
    [h |-> heap, tree |-> TaskTree, partition |-> workByPartition[key][1],
     itemList |-> itemList, freqPatterns |-> freqPatterns, stack |-> stack]

Mined(m) ==
    /\ nodes' = m.h.nodes
    /\ trees' = m.h.trees
    /\ itemList' = m.itemList
    /\ freqPatterns' = m.freqPatterns
    /\ stack' = m.stack
    /\ UNCHANGED <<pc, rdd, minSup, numPartitions, lno, FPList, finalPatterns, rank, projected,
                   workByPartition, key, todo, result, jobs, error>>
    /\ UNCHANGED treeVars

MineItem ==
    /\ pc = "mine"
    /\ CanMineItem(Task)
    /\ Mined(MineItemStep(Task, numPartitions, minSup))

Call ==
    /\ pc = "mine"
    /\ CanCall(Task)
    /\ Mined(CallStep(Task, minSup))

Return ==
    /\ pc = "mine"
    /\ CanReturn(Task)
    /\ Mined(ReturnStep(Task))

\* genAllFrequentPatterns returns freqPatterns.items(); the task's objects are dropped
EndTask ==
    /\ pc = "mine"
    /\ Finished(Task)
    /\ result' = result \o freqPatterns
    /\ freqPatterns' = <<>>
    /\ nodes' = <<>>
    /\ trees' = <<>>
    /\ key' = key + 1
    /\ pc' = "task"
    /\ UNCHANGED <<rdd, minSup, numPartitions, lno, FPList, finalPatterns, rank, projected,
                   workByPartition, todo, itemList, stack, jobs, error>>
    /\ UNCHANGED treeVars

RECURSIVE Joined(_)
Joined(pattern) == IF pattern = <<>> THEN "" ELSE Head(pattern) \o "\t" \o Joined(Tail(pattern))

KeyString(pattern) ==
    IF pattern.type = "str" THEN pattern.str \o "\t" ELSE Joined(pattern.tuple)

ToLabels(ranks_count, fl) ==
    <<TupleKey([z \in DOMAIN ranks_count[1] |-> fl[ranks_count[1][z] + 1]]), ranks_count[2]>>

\* self._finalPatterns after the update with dict(result) and the loop that turns
\* its keys into strings
FinalOf(fp, res, fl) ==
    LET all == Update(fp, DictOf([i \in DOMAIN res |-> ToLabels(res[i], fl)]))
    IN  DictOf([i \in DOMAIN all |-> <<KeyString(all[i][1]), all[i][2]>>])

\* the patterns of the partitions are collected, self._finalPatterns is updated with
\* them and its keys are turned into strings
Collect ==
    /\ pc = "task"
    /\ key > Len(workByPartition)
    /\ finalPatterns' = FinalOf(finalPatterns, result, FPList)
    /\ pc' = "done"
    /\ UNCHANGED <<rdd, minSup, numPartitions, lno, FPList, rank, projected, workByPartition,
                   key, todo, nodes, trees, itemList, freqPatterns, stack, result, jobs, error>>
    /\ UNCHANGED treeVars

Next ==
    \/ Count
    \/ Convert
    \/ FreqItems
    \/ Project
    \/ StartTask
    \/ AddTrans
    \/ StartMining
    \/ MineItem
    \/ Call
    \/ Return
    \/ EndTask
    \/ Collect

Spec == Init /\ [][Next]_vars

SpecRaw == InitRaw /\ [][Next]_vars

SpecCfg == InitCfg /\ [][Next]_vars

(***************************************************************************)
(* Tree building alone: two trees take the same calls of addTransaction,   *)
(* the first in the order of `data`, the second in any order.              *)
(***************************************************************************)
RECURSIVE Distinct(_)
Distinct(k) ==
    IF k = 0 THEN {<<>>}
    ELSE Distinct(k - 1) \cup
         {s \in [1..k -> Ranks] : \A i, j \in 1..k : i # j => s[i] # s[j]}

Calls == [transaction : Distinct(NumItems), count : 1..MaxCount]

First == TaskTree
Second == TaskTree + 1

InitTree ==
    /\ pc = "tree"
    /\ data \in UNION {[1..k -> Calls] : k \in 0..TreeMaxTrans}
    /\ inserted = <<<<>>, <<>>>>
    /\ LET t == Tree(Tree([nodes |-> <<>>, trees |-> <<>>]).h)
       IN  nodes = t.h.nodes /\ trees = t.h.trees
    /\ rdd = <<>>
    /\ minSup = IntSup(1)
    /\ numPartitions = 1
    /\ lno = 0
    /\ FPList = <<>>
    /\ finalPatterns = <<>>
    /\ rank = <<>>
    /\ projected = <<>>
    /\ workByPartition = <<>>
    /\ key = 0
    /\ todo = {}
    /\ itemList = <<>>
    /\ freqPatterns = <<>>
    /\ stack = <<>>
    /\ result = <<>>
    /\ jobs = <<>>
    /\ error = ""

Added(t, i) ==
    LET h == addTransaction(heap, t, data[i].transaction, data[i].count)
    IN  /\ nodes' = h.nodes
        /\ trees' = h.trees
        /\ inserted' = [inserted EXCEPT ![t] = Append(@, i)]
        /\ UNCHANGED <<pc, rdd, minSup, numPartitions, lno, FPList, finalPatterns, rank,
                       projected, workByPartition, key, todo, itemList, freqPatterns, stack,
                       result, jobs, error, data>>

AddFirst ==
    /\ pc = "tree"
    /\ Len(inserted[First]) < Len(data)
    /\ Added(First, Len(inserted[First]) + 1)

AddSecond ==
    /\ pc = "tree"
    /\ Len(inserted[First]) = Len(data)
    /\ \E i \in DOMAIN data : i \notin {inserted[Second][j] : j \in DOMAIN inserted[Second]} /\ Added(Second, i)

NextTree ==
    \/ AddFirst
    \/ AddSecond

SpecTree == InitTree /\ [][NextTree]_vars

(***************************************************************************)
(* startMine as a function of its inputs and of the order sortBy leaves    *)
(* the frequent items in, the grouped transactions taken in the order of   *)
(* the file.                                                               *)
(***************************************************************************)
RECURSIVE MineAll(_, _, _)
MineAll(work, n, ms) ==
    IF work = <<>> THEN <<>>
    ELSE LET t == Tree([nodes |-> <<>>, trees |-> <<>>])
             h == buildTree(t.h, t.tree, Head(work)[2])
         IN  genAllFrequentPatterns(h, Head(work)[1], t.tree, n, ms) \o MineAll(Tail(work), n, ms)

startMineOf(db, ms, n, fl) ==
    LET rk   == RankOf(fl)
        work == GroupByKey(<<>>, Flatten([t \in DOMAIN db |-> genCondTransaction(db[t], rk, n)]))
    IN  FinalOf(SingletonsOf(db, fl), MineAll(work, n, ms), fl)

(***************************************************************************)
(* What the claims speak of.                                               *)
(***************************************************************************)
SetOf(s) == {s[i] : i \in DOMAIN s}

Itemsets == (SUBSET Labels) \ {{}}

\* the number of transactions that contain all items of S
Support(db, S) == Cardinality({t \in DOMAIN db : S \subseteq SetOf(db[t])})

Perms(S) == {s \in [1..Cardinality(S) -> S] : \A i, j \in DOMAIN s : i # j => s[i] # s[j]}

\* the keys of the final mapping whose items are exactly S
Strings(S) == {Joined(p) : p \in Perms(S)}

\* a final mapping as a set of <<itemset, support>> pairs
PatternSet(fp) ==
    {<<S, fp[i][2]>> : <<S, i>> \in {x \in Itemsets \X DOMAIN fp : fp[x[2]][1] \in Strings(x[1])}}

Done == pc = "done"

\* C1: the final mapping of startMine is the brute-force enumeration: for an
\* absolute minSup >= 1 and transactions of distinct items, every itemset whose
\* support reaches minSup has exactly one entry, with its support as the count,
\* and every entry is such an itemset.
C1_BruteForce ==
    (Done /\ minSup.type = "int" /\ minSup.num >= 1) =>
        /\ \A S \in Itemsets :
              Support(rdd, S) >= minSup.num =>
                \E i \in DOMAIN finalPatterns :
                    /\ finalPatterns[i][1] \in Strings(S)
                    /\ finalPatterns[i][2] = Support(rdd, S)
                    /\ \A j \in DOMAIN finalPatterns :
                          finalPatterns[j][1] \in Strings(S) => j = i
        /\ \A i \in DOMAIN finalPatterns :
              \E S \in Itemsets :
                  /\ finalPatterns[i][1] \in Strings(S)
                  /\ Support(rdd, S) >= minSup.num

\* a run over two partitions ends with a frequent itemset of two items or more,
\* while another itemset occurs and stays below minSup
C1_Witness ==
    /\ Done
    /\ minSup.num >= 2
    /\ Len(workByPartition) >= 2
    /\ \E S \in Itemsets : Cardinality(S) >= 2 /\ Support(rdd, S) >= minSup.num
    /\ \E S \in Itemsets : Support(rdd, S) >= 1 /\ Support(rdd, S) < minSup.num

Owner(r) == r % numPartitions

Partition == workByPartition[key][1]

\* C2: the patterns the partitions return are pairwise different sets of ranks,
\* and a partition mines the conditional patterns of its own ranks only.
C2_NoDuplicate ==
    LET emitted == result \o freqPatterns
    IN  /\ \A i, j \in DOMAIN emitted :
              i # j => SetOf(emitted[i][1]) # SetOf(emitted[j][1])
        /\ pc = "mine" =>
              /\ \A d \in DOMAIN stack :
                    /\ Owner(stack[d].prefix[1]) = Partition
                    /\ \A i \in DOMAIN stack[d].freqPatterns :
                          Owner(stack[d].freqPatterns[i][1][1]) = Partition
              /\ \A i \in DOMAIN freqPatterns : Owner(freqPatterns[i][1][1]) = Partition

\* a second partition has returned patterns of its own while its tree held a rank
\* of another partition
C2_Witness ==
    /\ pc = "mine"
    /\ result # <<>>
    /\ freqPatterns # <<>>
    /\ Finished(Task)
    /\ \E i \in DOMAIN trees[TaskTree].itemCount :
          Owner(trees[TaskTree].itemCount[i][1]) # Partition

\* C3: a run with any other number of partitions, the same transactions, minSup
\* and ranks, ends with the same set of <<itemset, support>> pairs.
C3_PartitionInvariance ==
    Done =>
        \A n \in 1..MaxPartitions :
            PatternSet(finalPatterns) = PatternSet(startMineOf(rdd, minSup, n, FPList))

\* C4: after startMine has projected the transactions: for a transaction whose
\* ranks in ascending order are T, and a partition p, genCondTransaction returns a
\* pair for p exactly if T holds a rank p owns; then it returns one pair, and its
\* transaction is the prefix of T that ends with the largest rank p owns.
Projected == pc \in {"task", "build", "mine", "done"}

\* the ranks of the items of a transaction that are in the rank table, ascending
Ascending(transaction) ==
    LET kept == {i \in DOMAIN transaction : \E r \in DOMAIN FPList : FPList[r] = transaction[i]}
    IN  CHOOSE T \in [1..Cardinality(kept) -> {r - 1 : r \in DOMAIN FPList}] :
            /\ \A k \in 1..(Len(T) - 1) : T[k] <= T[k + 1]
            /\ \A r \in DOMAIN FPList :
                  Cardinality({k \in DOMAIN T : T[k] = r - 1}) =
                  Cardinality({i \in kept : transaction[i] = FPList[r]})

C4_Projection ==
    Projected =>
        \A t \in DOMAIN rdd :
            LET T   == Ascending(rdd[t])
                out == projected[t]
            IN  /\ \A i \in DOMAIN out : out[i][1] \in 0..(numPartitions - 1)
                /\ \A p \in 0..(numPartitions - 1) :
                      LET owned == {k \in DOMAIN T : T[k] % numPartitions = p}
                          pairs == {i \in DOMAIN out : out[i][1] = p}
                      IN  /\ pairs # {} <=> owned # {}
                          /\ Cardinality(pairs) <= 1
                          /\ \A i \in pairs :
                                \E k \in owned :
                                    /\ \A j \in owned : T[j] <= T[k]
                                    /\ out[i][2] = SubSeq(T, 1, k)

\* a transaction is projected onto two partitions, onto one of them as a proper
\* prefix, and not onto a third
C4_Witness ==
    /\ Projected
    /\ numPartitions >= 3
    /\ \E t \in DOMAIN rdd :
          /\ Len(projected[t]) = 2
          /\ \E i, j \in DOMAIN projected[t] : Len(projected[t][i][2]) < Len(projected[t][j][2])

\* C8: every projected transaction is a strictly ascending sequence of ranks of
\* the rank table, also when a label occurs twice in the input transaction.
C8_StrictlyAscending ==
    \A t \in DOMAIN projected :
        \A i \in DOMAIN projected[t] :
            LET s == projected[t][i][2]
            IN  /\ \A k \in 1..(Len(s) - 1) : s[k] < s[k + 1]
                /\ \A k \in DOMAIN s : s[k] \in {r - 1 : r \in DOMAIN FPList}

\* C5: a minimum support that is no number, or a number of partitions below 1,
\* ends the run with InvalidConfiguration before any distributed job has run.
Recognized(value) == value.type \in {"int", "float"} \/ (value.type = "str" /\ convert(value, 0).ok)

C5_FailFast ==
    (~Recognized(minSup) \/ numPartitions < 1) =>
        /\ jobs = <<>>
        /\ pc \in {"start", "failed"}
        /\ pc = "failed" => error = "InvalidConfiguration"

(***************************************************************************)
(* A tree as the claims see it: its nodes by their paths from the root.    *)
(***************************************************************************)
RECURSIVE NodePaths(_, _, _)
NodePaths(h, node, path) ==
    UNION {{<<h.nodes[node].children[c][2], Append(path, h.nodes[node].children[c][1])>>} \cup
           NodePaths(h, h.nodes[node].children[c][2], Append(path, h.nodes[node].children[c][1]))
           : c \in DOMAIN h.nodes[node].children}

PathsOf(h, t) == NodePaths(h, h.trees[t].root, <<>>)

PathOf(h, t, node) == (CHOOSE x \in PathsOf(h, t) : x[1] = node)[2]

Shape(h, t) ==
    [nodes     |-> {<<x[2], h.nodes[x[1]].count>> : x \in PathsOf(h, t)},
     itemCount |-> SetOf(h.trees[t].itemCount),
     nodeLink  |-> {<<h.trees[t].nodeLink[k][1],
                      {PathOf(h, t, h.trees[t].nodeLink[k][2][i])
                         : i \in DOMAIN h.trees[t].nodeLink[k][2]}>>
                    : k \in DOMAIN h.trees[t].nodeLink}]

Height(h, t) ==
    IF PathsOf(h, t) = {} THEN 0
    ELSE CHOOSE m \in {Len(x[2]) : x \in PathsOf(h, t)} : \A x \in PathsOf(h, t) : Len(x[2]) <= m

\* C6: two trees that took the same transactions, each with count 1, in two
\* orders have the same paths with the same counts, the same itemCount, the same
\* set of nodes under each rank of nodeLink, and the same mined patterns.
BothBuilt == pc = "tree" /\ Len(inserted[Second]) = Len(data)

C6_OrderIndependence ==
    (BothBuilt /\ \A i \in DOMAIN data : data[i].count = 1) =>
        /\ Shape(heap, First) = Shape(heap, Second)
        /\ \A s \in 0..MaxSup :
              SetOf(genAllFrequentPatterns(heap, 0, First, 1, IntSup(s))) =
              SetOf(genAllFrequentPatterns(heap, 0, Second, 1, IntSup(s)))

\* the second tree took three transactions that share a first rank in another
\* order than the first tree, and a pattern is mined from it
C6_Witness ==
    /\ BothBuilt
    /\ Len(data) >= 3
    /\ \A i \in DOMAIN data : data[i].count = 1 /\ Len(data[i].transaction) >= 2
    /\ \A i, j \in DOMAIN data : i # j => data[i].transaction # data[j].transaction
    /\ \A i, j \in DOMAIN data : data[i].transaction[1] = data[j].transaction[1]
    /\ inserted[Second] # inserted[First]
    /\ genAllFrequentPatterns(heap, 0, Second, 1, IntSup(2)) # <<>>

\* C10: in every tree, nodeLink[r] holds the nodes of the tree that carry rank r,
\* each once, and itemCount[r] is the sum of their counts.
C10_IndexConsistency ==
    \A t \in DOMAIN trees :
        \A r \in Ranks :
            LET link == IF Has(trees[t].nodeLink, r) THEN Get(trees[t].nodeLink, r) ELSE <<>>
                ic   == IF Has(trees[t].itemCount, r) THEN Get(trees[t].itemCount, r) ELSE 0
            IN  /\ SetOf(link) = {x[1] : x \in {y \in PathsOf(heap, t) : nodes[y[1]].item = r}}
                /\ \A i, j \in DOMAIN link : i # j => link[i] # link[j]
                /\ ic = SumCounts(nodes, link)

\* a tree holds two nodes of one rank, one of them with a count above that of a
\* single call
C10_Witness ==
    /\ pc = "tree"
    /\ \E k \in DOMAIN trees[Second].nodeLink :
          /\ Len(trees[Second].nodeLink[k][2]) >= 2
          /\ \E i \in DOMAIN trees[Second].nodeLink[k][2] :
                nodes[trees[Second].nodeLink[k][2][i]].count > MaxCount

\* the nodes a tree refers to: its root, the nodes below it and those of nodeLink
NodesOf(h, t) ==
    {h.trees[t].root} \cup {x[1] : x \in PathsOf(h, t)} \cup
    UNION {SetOf(h.trees[t].nodeLink[k][2]) : k \in DOMAIN h.trees[t].nodeLink}

\* C7: a step of the mining leaves every tree and node that existed before it as
\* it was, and a tree the step creates holds new nodes only.
C7_ReadOnly ==
    [][(pc = "mine" /\ pc' = "mine") =>
          /\ \A n \in DOMAIN nodes : n \in DOMAIN nodes' /\ nodes'[n] = nodes[n]
          /\ \A t \in DOMAIN trees : t \in DOMAIN trees' /\ trees'[t] = trees[t]
          /\ \A t \in DOMAIN trees' :
                t \notin DOMAIN trees => NodesOf(heap', t) \cap DOMAIN nodes = {}]_vars

\* a conditional tree of a conditional tree has been built, and neither is empty
C7_Witness ==
    /\ pc = "mine"
    /\ Len(stack) >= 2
    /\ \A d \in DOMAIN stack : trees[stack[d].condTree].nodeLink # <<>>

\* C9: the conditional tree of a call is lower than the tree it was made from; a
\* call whose conditional tree has no rank that reaches the threshold returns at
\* once, with no pattern and no further tree; and every step of the mining lowers
\* a measure that is a natural number, so that no call runs forever.
Top == stack[Len(stack)]

RECURSIVE Cost(_, _)
Cost(height, ranks) ==
    IF height <= 0 THEN 1 ELSE 1 + ranks * (1 + Cost(height - 1, ranks))

\* a bound on the steps the mining of the running task has left
Measure(h, st, il) ==
    LET ranks == Len(h.trees[TaskTree].nodeLink)
        frame(d) == 1 + (Len(st[d].freqItems) + 1 - st[d].i) *
                        (1 + Cost(Height(h, st[d].condTree) - 1, ranks))
        sum[d \in 0..Len(st)] == IF d = 0 THEN 0 ELSE frame(d) + sum[d - 1]
    IN  sum[Len(st)] + Len(il) * (1 + Cost(Height(h, TaskTree) - 1, ranks))

C9_Terminates ==
    /\ [](pc = "mine" =>
            \A d \in DOMAIN stack :
                Height(heap, stack[d].condTree) < Height(heap, stack[d].tree))
    /\ [][(pc = "mine" /\ stack # <<>> /\ Top.freqItems = <<>>) =>
            /\ Top.freqPatterns = <<>>
            /\ nodes' = nodes
            /\ trees' = trees
            /\ freqPatterns' = freqPatterns
            /\ Len(stack') = Len(stack) - 1
            /\ \A d \in DOMAIN stack' : stack'[d] = stack[d]]_vars
    /\ [][(pc = "mine" /\ pc' = "mine") =>
            /\ Measure(heap', stack', itemList') \in Nat
            /\ Measure(heap', stack', itemList') < Measure(heap, stack, itemList)]_vars

\* with threshold 0, a call made from within a call found no rank in its
\* conditional tree
C9_Witness ==
    /\ pc = "mine"
    /\ minSup.num = 0
    /\ Len(stack) >= 3
    /\ Top.freqItems = <<>>

====
